---- MODULE Spec2Model ----
(***************************************************************************)
(* The article service of the blogging platform: the Article collection    *)
(* (backend/models/Article.js), its route handlers (the articles router,   *)
(* second half of backend/routes/test.js) and the image upload adapter     *)
(* (uploadService, src/unnamed/part_003).                                  *)
(*                                                                         *)
(* Persistence is Mongoose over MongoDB.  document.save() sends a delta:   *)
(* a scalar path that changed is $set, array.push is the atomic $push,     *)
(* array.pull is $pull, assigning a whole array is $set of the array.      *)
(* $set of an array and $pull carry the version key __v in the filter and  *)
(* fail (VersionError) when it moved; $push only increments __v.           *)
(***************************************************************************)
EXTENDS Integers, Sequences, FiniteSets, TLC

\* ------------------------------------------------------------------ bounds
NumUsers == 2
NumArticles == 2
MaxTime == 2
MaxViews == 1
MaxLikes == 2
MaxImages == 2
MaxIds == 2
NumReqs == 2
EngagedArticles == 1
MaxReads == 2
MaxComments == 2
MaxTrendTime == 3
MaxFollows == 2
MaxInflight == 2
MaxShown == 2
MaxPages == 2

Users == 1..NumUsers
\* optionalAuth leaves req.user undefined for a request without a token
Anonymous == 0
Requesters == {Anonymous} \cup Users
Articles == 1..NumArticles
Times == 1..MaxTime
Reqs == 1..NumReqs

VARIABLES
    articles,   \* the Article collection: id -> document (live = FALSE: no document)
    nextId,     \* the next fresh ObjectId of the collection
    uploads,    \* public_ids of the images held by the storage (remote or local)
    nextImage,  \* the next fresh public_id the storage hands out
    now,        \* the clock read by new Date()
    req,        \* the like/bookmark requests in flight between findById and save
    res,        \* the response of the request handled last
    env,        \* process.env.CLOUDINARY_CLOUD_NAME of the server process
    users,      \* the User collection: id -> avatar, following, followers
    client      \* the state of the Trending page of one browser

vars == <<articles, nextId, uploads, nextImage, now, req, res, env, users, client>>

\* ------------------------------------------------------------- the schema
CategoryEnum ==
    {"Technology", "Health", "Business", "Science", "Politics", "Sports",
     "Entertainment", "Other"}

\* No document under this id.  publishedAt = 0 and featuredImage = 0 stand for
\* an unset Date and an unset public_id.  A comment is [id, user, content];
\* nextComment is the next fresh _id of a comment subdocument.  everPublished
\* is the history of the document: published was true after some write.
\* A content is what the hook reads of the string: whether it starts (lead) or
\* ends (trail) with whitespace, its number of words (maximal runs of
\* non-whitespace) and the number of its characters other than # * ` (plain).
\* An excerpt is its length, 0 when absent; readTime defaults to 1.
NoArticle ==
    [live |-> FALSE, author |-> 0, published |-> FALSE, publishedAt |-> 0,
     views |-> 0, likes |-> <<>>, bookmarks |-> <<>>, category |-> "Other",
     featuredImage |-> 0, comments |-> <<>>, nextComment |-> 1,
     everPublished |-> FALSE,
     content |-> [lead |-> FALSE, words |-> 0, trail |-> FALSE, plain |-> 0],
     readTime |-> 1, excerpt |-> 0]

Range(s) == {s[i] : i \in 1..Len(s)}

RECURSIVE Without(_, _)
\* array.filter(x => x !== u) and the effect of $pull: every occurrence goes
Without(s, u) ==
    IF s = <<>> THEN <<>>
    ELSE IF Head(s) = u THEN Without(Tail(s), u)
         ELSE <<Head(s)>> \o Without(Tail(s), u)

Has(body, field) == field \in DOMAIN body

Idle == [phase |-> "idle"]

\* a configured (non-placeholder) cloud name; the fallback writes '' over it
CloudName == "demo"

NoUser == [avatar |-> 0, following |-> <<>>, followers |-> <<>>]

\* the Trending page once mounted: useState(...) of each field, and the
\* request that the effect of the first render has sent
FirstTimeframe == 7

TrendingRequest(days, page, reset) == [days |-> days, page |-> page, reset |-> reset]

MountedPage ==
    [articles |-> <<>>, loading |-> TRUE, timeframe |-> FirstTimeframe,
     page |-> 1, hasMore |-> TRUE,
     inflight |-> <<TrendingRequest(FirstTimeframe, 1, TRUE)>>]

Init ==
    /\ articles = [a \in Articles |-> NoArticle]
    /\ nextId = 1
    /\ uploads = {}
    /\ nextImage = 1
    /\ now = 1
    /\ req = [r \in Reqs |-> Idle]
    /\ res = [op |-> "none", status |-> 0]
    /\ env = CloudName
    /\ users = [u \in Users |-> NoUser]
    /\ client = MountedPage

\* time passes between requests
TickTo(limit) ==
    /\ now < limit
    /\ now' = now + 1
    /\ UNCHANGED <<articles, nextId, uploads, nextImage, req, res, env, users, client>>

Tick == TickTo(MaxTime)

\* --------------------------------------------------- pre('save') middleware
WordsPerMinute == 200
ExcerptLimit == 300
EllipsisLength == 3

\* Math.ceil(n / d) for n >= 0, d > 0
CeilDiv(n, d) == (n + d - 1) \div d

\* content.split(/\s+/).length: the words, plus one empty string for leading
\* and one for trailing whitespace; "" gives [""], only whitespace ["", ""]
SplitLength(content) ==
    IF content.words = 0
    THEN IF content.lead /\ content.trail THEN 2 ELSE 1
    ELSE content.words + (IF content.lead THEN 1 ELSE 0)
                       + (IF content.trail THEN 1 ELSE 0)

\* content.replace(/[#*`]/g, '').substring(0, 300), then '...' when that has
\* 300 characters
DerivedExcerpt(content) ==
    LET plainText == IF content.plain < ExcerptLimit THEN content.plain
                     ELSE ExcerptLimit
    IN  plainText + (IF plainText = ExcerptLimit THEN EllipsisLength ELSE 0)

\* The content part of the hook.  Validation (excerpt maxlength) has run
\* before the hook, so what the hook derives is stored as it is.
PreSaveContent(old, doc) ==
    IF doc.content # old.content
    THEN [doc EXCEPT
            !.readTime = CeilDiv(SplitLength(doc.content), WordsPerMinute),
            !.excerpt = IF @ = 0 THEN DerivedExcerpt(doc.content) ELSE @]
    ELSE doc

\* the document's validate() of a path the request sets: excerpt maxlength
ExcerptValid(body) == Has(body, "excerpt") => body.excerpt <= ExcerptLimit

\* the empty string, refused by isLength({min: 1})
EmptyContent == [lead |-> FALSE, words |-> 0, trail |-> FALSE, plain |-> 0]

\* the content of a request that does not say which: one word
DefaultContent == [lead |-> FALSE, words |-> 1, trail |-> FALSE, plain |-> 1]

ContentGiven(body) == Has(body, "content") => body.content # EmptyContent

\* The published-date part of the hook: stamps when published was modified by
\* this save, is now true, and no publishedAt is set.
PreSavePublishedAt(old, doc) ==
    IF doc.published # old.published /\ doc.published /\ doc.publishedAt = 0
    THEN [doc EXCEPT !.publishedAt = now]
    ELSE doc

\* ------------------------------------------------------------ POST /articles
CreateBodies ==
    {[published |-> p, category |-> c] : p \in BOOLEAN, c \in {"Other", "Bogus"}}

CreateArticle(u, body) ==
    /\ nextId <= NumArticles
    /\ IF body.category \notin CategoryEnum \/ ~ContentGiven(body)
       THEN /\ res' = [op |-> "create", user |-> u, status |-> 400]
            /\ UNCHANGED <<articles, nextId>>
       ELSE IF ~ExcerptValid(body)
       THEN /\ res' = [op |-> "create", user |-> u, status |-> 500]
            /\ UNCHANGED <<articles, nextId>>
       ELSE LET fresh == [NoArticle EXCEPT !.live = TRUE, !.author = u,
                              !.category = body.category,
                              !.published = body.published,
                              !.everPublished = body.published,
                              !.content = IF Has(body, "content") THEN body.content
                                          ELSE DefaultContent,
                              !.excerpt = IF Has(body, "excerpt") THEN body.excerpt
                                          ELSE 0]
                doc == PreSavePublishedAt(NoArticle, PreSaveContent(NoArticle, fresh))
            IN  /\ articles' = [articles EXCEPT ![nextId] = doc]
                /\ nextId' = nextId + 1
                /\ res' = [op |-> "create", user |-> u, status |-> 201,
                           art |-> nextId]
    /\ UNCHANGED <<uploads, nextImage, now, req, env, users, client>>

\* ------------------------------------------------------- GET /articles/:id
\* 404 for a missing document and for a draft read by anyone but its author;
\* otherwise the atomic findByIdAndUpdate $inc of views.
\* a detail read that forgets the draft check
GetArticleStatusOpen(u, a) == IF ~articles[a].live THEN 404 ELSE 200

GetArticleStatus(u, a) ==
    IF ~articles[a].live THEN 404
    ELSE IF ~articles[a].published /\ ~(u # Anonymous /\ articles[a].author = u)
         THEN 404
         ELSE 200

GetArticle(u, a) ==
    /\ IF GetArticleStatus(u, a) = 200
       THEN /\ articles[a].views < MaxViews
            /\ articles' = [articles EXCEPT ![a].views = @ + 1]
            /\ res' = [op |-> "detail", user |-> u, art |-> a, status |-> 200]
       ELSE /\ res' = [op |-> "detail", user |-> u, art |-> a, status |-> 404]
            /\ UNCHANGED articles
    /\ UNCHANGED <<nextId, uploads, nextImage, now, req, env, users, client>>

\* The same handler as two steps, for reads that overlap: findById with the
\* 404 checks (DetailFind), then the $inc and the answer (DetailInc).  The
\* answer is built from the document as read: views is article.views + 1.
DetailFind(r, u, a) ==
    /\ req[r].phase = "idle"
    /\ IF GetArticleStatus(u, a) = 200
       THEN /\ req' = [req EXCEPT ![r] =
                         [phase |-> "read", op |-> "detail", user |-> u, art |-> a,
                          views |-> articles[a].views, fresh |-> TRUE]]
            /\ UNCHANGED res
       ELSE /\ res' = [op |-> "detail", user |-> u, art |-> a, status |-> 404]
            /\ UNCHANGED req
    /\ UNCHANGED <<articles, nextId, uploads, nextImage, now, env, users, client>>

\* a read-modify-write of the counter: the value as read, plus one
SetViewsFromRead(doc, snap) == [doc EXCEPT !.views = snap + 1]

\* findByIdAndUpdate(id, {$inc: {views: 1}}): atomic on the stored value
IncViews(doc, snap) == [doc EXCEPT !.views = @ + 1]

\* findByIdAndUpdate on a document deleted since the read matches nothing and
\* does not throw: the article as read is still returned.
DetailInc(r) ==
    LET a == req[r].art
    IN  /\ req[r].phase = "read" /\ req[r].op = "detail"
        /\ IF articles[a].live
           THEN /\ articles[a].views < MaxReads
                /\ articles' = [articles EXCEPT
                                   ![a] = IncViews(articles[a], req[r].views)]
           ELSE UNCHANGED articles
        /\ res' = [op |-> "detail", user |-> req[r].user, art |-> a,
                   status |-> 200, views |-> req[r].views + 1]
        /\ req' = [req EXCEPT ![r] = Idle]
        /\ UNCHANGED <<nextId, uploads, nextImage, now, env, users, client>>

\* ------------------------------------------------------- PUT /articles/:id
\* The request body is assigned to the document as it is (Object.assign), so
\* any path of the schema the body carries is written.
SingleFieldBodies ==
    {[published |-> p] : p \in BOOLEAN}
    \cup {[publishedAt |-> t] : t \in {0} \cup Times}
    \cup {[author |-> w] : w \in Users}
    \cup {[views |-> n] : n \in 0..MaxViews}
    \cup {[category |-> c] : c \in {"Technology", "Bogus"}}

\* one field, or published together with publishedAt (the two the hook reads)
PutBodies ==
    SingleFieldBodies
    \cup {[published |-> p, publishedAt |-> t] : p \in BOOLEAN, t \in {0} \cup Times}

\* express-validator: category, when present, must be one of the enumeration
PutBodyValid(body) ==
    /\ Has(body, "category") => body.category \in CategoryEnum
    /\ ContentGiven(body)

AssignBody(doc, body) ==
    [doc EXCEPT
        !.published = IF Has(body, "published") THEN body.published ELSE @,
        !.publishedAt = IF Has(body, "publishedAt") THEN body.publishedAt ELSE @,
        !.author = IF Has(body, "author") THEN body.author ELSE @,
        !.views = IF Has(body, "views") THEN body.views ELSE @,
        !.category = IF Has(body, "category") THEN body.category ELSE @,
        !.likes = IF Has(body, "likes") THEN body.likes ELSE @,
        !.bookmarks = IF Has(body, "bookmarks") THEN body.bookmarks ELSE @,
        !.comments = IF Has(body, "comments") THEN body.comments ELSE @,
        !.content = IF Has(body, "content") THEN body.content ELSE @,
        !.excerpt = IF Has(body, "excerpt") THEN body.excerpt ELSE @,
        !.everPublished = @ \/ (Has(body, "published") /\ body.published)]

UpdateArticleStatus(u, a, body) ==
    IF ~PutBodyValid(body) THEN 400
    ELSE IF ~articles[a].live THEN 404
    ELSE IF articles[a].author # u THEN 403
    ELSE IF ~ExcerptValid(body) THEN 500
    ELSE 200

UpdateArticle(u, a, body) ==
    /\ res' = [op |-> "update", user |-> u, art |-> a,
               status |-> UpdateArticleStatus(u, a, body)]
    /\ IF UpdateArticleStatus(u, a, body) = 200
       THEN articles' = [articles EXCEPT
                ![a] = PreSavePublishedAt(articles[a],
                          PreSaveContent(articles[a], AssignBody(articles[a], body)))]
       ELSE UNCHANGED articles
    /\ UNCHANGED <<nextId, uploads, nextImage, now, req, env, users, client>>

\* ------------------------------------------------------------ uploadService
\* deleteImage swallows every error: the image is released or it stays.
DeleteImage(store, publicId, released) ==
    IF released THEN store \ {publicId} ELSE store

\* ---------------------------------------------------- DELETE /articles/:id
\* a delete that forgets the ownership check
DeleteArticleStatusAnyone(u, a) == IF ~articles[a].live THEN 404 ELSE 200

DeleteArticleStatus(u, a) ==
    IF ~articles[a].live THEN 404
    ELSE IF articles[a].author # u THEN 403
    ELSE 200

\* a delete that gives up when the image could not be released
DeleteArticleBlocked(u, a, released) ==
    LET blocked == articles[a].featuredImage # 0 /\ ~released
        status == IF DeleteArticleStatus(u, a) = 200 /\ blocked THEN 500
                  ELSE DeleteArticleStatus(u, a)
    IN  /\ res' = [op |-> "delete", user |-> u, art |-> a, status |-> status]
        /\ IF status = 200
           THEN /\ uploads' = IF articles[a].featuredImage # 0
                              THEN DeleteImage(uploads, articles[a].featuredImage, released)
                              ELSE uploads
                /\ articles' = [articles EXCEPT ![a] = NoArticle]
           ELSE UNCHANGED <<articles, uploads>>
        /\ UNCHANGED <<nextId, nextImage, now, req, env, users, client>>

DeleteArticle(u, a, released) ==
    /\ res' = [op |-> "delete", user |-> u, art |-> a,
               status |-> DeleteArticleStatus(u, a)]
    /\ IF DeleteArticleStatus(u, a) = 200
       THEN /\ uploads' = IF articles[a].featuredImage # 0
                          THEN DeleteImage(uploads, articles[a].featuredImage, released)
                          ELSE uploads
            /\ articles' = [articles EXCEPT ![a] = NoArticle]
       ELSE UNCHANGED <<articles, uploads>>
    /\ UNCHANGED <<nextId, nextImage, now, req, env, users, client>>

\* ------------------------------------------------- POST /articles/:id/image
Files == {"none", "empty", "image"}

UploadImageStatus(u, a, file, stored) ==
    IF file = "none" \/ file = "empty" THEN 400
    ELSE IF ~articles[a].live THEN 404
    ELSE IF articles[a].author # u THEN 403
    ELSE IF ~stored THEN 500
    ELSE 200

\* released: whether deleteImage removed the old image; stored: whether
\* uploadImage (with its local fallback) stored the new one.
UploadArticleImage(u, a, file, released, stored) ==
    LET status == UploadImageStatus(u, a, file, stored)
        old == articles[a].featuredImage
        kept == IF old # 0 THEN DeleteImage(uploads, old, released) ELSE uploads
    IN  /\ nextImage <= MaxImages
        /\ res' = [op |-> "image", user |-> u, art |-> a, status |-> status]
        /\ IF status = 200
           THEN /\ uploads' = kept \cup {nextImage}
                /\ nextImage' = nextImage + 1
                /\ articles' = [articles EXCEPT ![a].featuredImage = nextImage]
           ELSE IF status = 500
           THEN /\ uploads' = kept
                /\ UNCHANGED <<articles, nextImage>>
           ELSE UNCHANGED <<articles, uploads, nextImage>>
        /\ UNCHANGED <<nextId, now, req, env, users, client>>

\* ---------------------------------------- POST /articles/:id/image, in steps
\* The handler awaits findById, deleteImage, uploadImage (twice when it falls
\* back) and save; other requests run at each await.  A public_id handed out
\* by the remote storage is a positive number, the name image-... of a local
\* file a negative one.
IsCloudinaryConfigured == env # ""

IsLocal(publicId) == publicId < 0

\* deleteImage touches a local file always and a remote image only while the
\* remote storage is configured
Attempted(publicId) == IsLocal(publicId) \/ IsCloudinaryConfigured

Payloads == Files \cup {"oversize", "badtype"}

\* smartUpload.single: the size limit and the file filter of multer
MulterRejects(file) == file \in {"oversize", "badtype"}

UploadPhases == {"release", "remote", "local", "fallback", "save"}

Uploading == {r \in Reqs : req[r].phase \in UploadPhases}

\* uploadImage reads the configuration when it is called
PrimaryPhase == IF IsCloudinaryConfigured THEN "remote" ELSE "local"

UploadStart(r, u, a, file) ==
    LET status == IF MulterRejects(file) THEN 500
                  ELSE UploadImageStatus(u, a, file, TRUE)
        old == articles[a].featuredImage
        slot == [op |-> "image", user |-> u, art |-> a]
    IN  /\ req[r] = Idle
        /\ nextImage + Cardinality(Uploading) <= MaxImages
        /\ IF status # 200
           THEN /\ res' = [op |-> "image", user |-> u, art |-> a, status |-> status]
                /\ UNCHANGED req
           ELSE /\ req' = [req EXCEPT ![r] =
                              IF old # 0
                              THEN slot @@ [phase |-> "release", old |-> old,
                                            attempted |-> Attempted(old)]
                              ELSE slot @@ [phase |-> PrimaryPhase]]
                /\ UNCHANGED res
        /\ UNCHANGED <<articles, nextId, uploads, nextImage, now, env, users, client>>

\* deleteImage returns, the old image released or not; uploadImage is called
UploadReleased(r, released) ==
    /\ req[r].phase = "release"
    /\ released => req[r].attempted
    /\ uploads' = DeleteImage(uploads, req[r].old, released)
    /\ req' = [req EXCEPT ![r] =
                  [op |-> "image", user |-> req[r].user, art |-> req[r].art,
                   phase |-> PrimaryPhase]]
    /\ UNCHANGED <<articles, nextId, nextImage, now, res, env, users, client>>

Stored(r, publicId) ==
    [op |-> "image", user |-> req[r].user, art |-> req[r].art,
     phase |-> "save", image |-> publicId]

ImageFailed(r) ==
    [op |-> "image", user |-> req[r].user, art |-> req[r].art, status |-> 500]

\* the remote upload answers; on its failure the handler clears the cloud
\* name, remembers the value it read, and calls uploadImage again
UploadRemoteDone(r, ok) ==
    /\ req[r].phase = "remote"
    /\ IF ok
       THEN /\ uploads' = uploads \cup {nextImage}
            /\ nextImage' = nextImage + 1
            /\ req' = [req EXCEPT ![r] = Stored(r, nextImage)]
            /\ UNCHANGED env
       ELSE /\ env' = ""
            /\ req' = [req EXCEPT ![r] =
                          [op |-> "image", user |-> req[r].user, art |-> req[r].art,
                           phase |-> "fallback", original |-> env]]
            /\ UNCHANGED <<uploads, nextImage>>
    /\ UNCHANGED <<articles, nextId, now, res, users, client>>

\* the local write of a first attempt made while no cloud name was set
UploadLocalDone(r, ok) ==
    /\ req[r].phase = "local"
    /\ IF ok
       THEN /\ uploads' = uploads \cup {-nextImage}
            /\ nextImage' = nextImage + 1
            /\ req' = [req EXCEPT ![r] = Stored(r, -nextImage)]
            /\ UNCHANGED res
       ELSE /\ res' = ImageFailed(r)
            /\ req' = [req EXCEPT ![r] = Idle]
            /\ UNCHANGED <<uploads, nextImage>>
    /\ UNCHANGED <<articles, nextId, now, env, users, client>>

\* the local write of the fallback; finally restores the remembered name
UploadFallbackDone(r, ok) ==
    /\ req[r].phase = "fallback"
    /\ env' = req[r].original
    /\ IF ok
       THEN /\ uploads' = uploads \cup {-nextImage}
            /\ nextImage' = nextImage + 1
            /\ req' = [req EXCEPT ![r] = Stored(r, -nextImage)]
            /\ UNCHANGED res
       ELSE /\ res' = ImageFailed(r)
            /\ req' = [req EXCEPT ![r] = Idle]
            /\ UNCHANGED <<uploads, nextImage>>
    /\ UNCHANGED <<articles, nextId, now, users, client>>

\* article.save(): the document may have been deleted since findById; whether
\* save then throws depends on the version of the library
UploadSave(r) ==
    LET a == req[r].art
    IN  /\ req[r].phase = "save"
        /\ IF articles[a].live
           THEN /\ articles' = [articles EXCEPT ![a].featuredImage = req[r].image]
                /\ res' = [op |-> "image", user |-> req[r].user, art |-> a,
                           status |-> 200]
           ELSE /\ UNCHANGED articles
                /\ \E status \in {200, 500} :
                      res' = [op |-> "image", user |-> req[r].user, art |-> a,
                              status |-> status]
        /\ req' = [req EXCEPT ![r] = Idle]
        /\ UNCHANGED <<nextId, uploads, nextImage, now, env, users, client>>

\* ------------------------------------------------------- POST /auth/avatar
\* No empty-payload check and no fallback: deleteImage, one uploadImage,
\* findByIdAndUpdate.  released: deleteImage removed the old avatar; remoteOk,
\* localOk: what the storage uploadImage turns to would answer.
UploadAvatarStatus(file, stored) ==
    IF MulterRejects(file) THEN 500
    ELSE IF file = "none" THEN 400
    ELSE IF file = "empty" \/ ~stored THEN 500
    ELSE 200

UploadAvatar(u, file, released, remoteOk, localOk) ==
    LET old == users[u].avatar
        kept == IF old # 0 THEN DeleteImage(uploads, old, released) ELSE uploads
        stored == IF IsCloudinaryConfigured THEN remoteOk ELSE localOk
        publicId == IF IsCloudinaryConfigured THEN nextImage ELSE -nextImage
        status == UploadAvatarStatus(file, stored)
    IN  /\ nextImage <= MaxImages
        /\ released => old # 0 /\ Attempted(old)
        /\ res' = [op |-> "avatar", user |-> u, status |-> status]
        /\ IF MulterRejects(file) \/ file = "none"
           THEN UNCHANGED <<uploads, users, nextImage>>
           ELSE IF status = 200
           THEN /\ uploads' = kept \cup {publicId}
                /\ nextImage' = nextImage + 1
                /\ users' = [users EXCEPT ![u].avatar = publicId]
           ELSE /\ uploads' = kept
                /\ UNCHANGED <<users, nextImage>>
        /\ UNCHANGED <<articles, nextId, now, req, env, client>>

\* ------------------------------------------------ DELETE /articles/bulk/delete
IdLists == UNION {[1..n -> Articles] : n \in 1..MaxIds}

\* a find that forgets the author filter
OwnedInAny(u, ids) == {a \in Range(ids) : articles[a].live}

\* Article.find({_id: {$in: ids}, author: u})
OwnedIn(u, ids) ==
    {a \in Range(ids) : articles[a].live /\ articles[a].author = u}

\* a bulk delete as permissive as the bulk update: refuses only when nothing matches
BulkDeleteStatusLax(u, ids) == IF OwnedIn(u, ids) = {} THEN 403 ELSE 200

BulkDeleteStatus(u, ids) ==
    IF Cardinality(OwnedIn(u, ids)) # Len(ids) THEN 403 ELSE 200

\* releasedSet: the articles whose image deleteImage did remove
BulkDelete(u, ids, releasedSet) ==
    LET found == OwnedIn(u, ids)
        status == BulkDeleteStatus(u, ids)
    IN  /\ res' = [op |-> "bulkDelete", user |-> u, ids |-> Range(ids),
                   status |-> status]
        /\ IF status = 200
           THEN /\ uploads' = uploads \
                     {articles[a].featuredImage : a \in found \cap releasedSet}
                /\ articles' = [a \in Articles |->
                                   IF a \in found THEN NoArticle ELSE articles[a]]
           ELSE UNCHANGED <<articles, uploads>>
        /\ UNCHANGED <<nextId, nextImage, now, req, env, users, client>>

\* ------------------------------------------------- PUT /articles/bulk/update
\* views stands for any key outside allowedUpdates
BulkSingles ==
    {[published |-> p] : p \in BOOLEAN}
    \cup {[category |-> "Technology"], [views |-> 0]}

BulkBodies == {b1 @@ b2 : b1 \in BulkSingles, b2 \in BulkSingles}

AllowedUpdates == {"published", "category"}

\* filteredUpdates, with publishedAt added when published === true
FilteredUpdates(updates) ==
    LET kept == [k \in DOMAIN updates \cap AllowedUpdates |-> updates[k]]
    IN  IF Has(kept, "published") /\ kept.published = TRUE
        THEN kept @@ [publishedAt |-> now]
        ELSE kept

\* updateMany applies the $set of every key to a matched document
ApplyUpdates(doc, filtered) ==
    [doc EXCEPT
        !.published = IF Has(filtered, "published") THEN filtered.published ELSE @,
        !.category = IF Has(filtered, "category") THEN filtered.category ELSE @,
        !.publishedAt = IF Has(filtered, "publishedAt") THEN filtered.publishedAt ELSE @,
        !.everPublished = @ \/ (Has(filtered, "published") /\ filtered.published)]

BulkUpdateStatus(updates) ==
    IF DOMAIN updates \cap AllowedUpdates = {} THEN 400 ELSE 200

\* The schema has timestamps: true, so updateMany also sets updatedAt on every
\* matched document: each matched document counts as modified.
BulkUpdate(u, ids, updates) ==
    LET matched == OwnedIn(u, ids)
        filtered == FilteredUpdates(updates)
        status == BulkUpdateStatus(updates)
    IN  /\ IF status = 200
           THEN /\ articles' = [a \in Articles |->
                                   IF a \in matched
                                   THEN ApplyUpdates(articles[a], filtered)
                                   ELSE articles[a]]
                /\ res' = [op |-> "bulkUpdate", user |-> u, ids |-> Range(ids),
                           status |-> 200, modifiedCount |-> Cardinality(matched)]
           ELSE /\ res' = [op |-> "bulkUpdate", user |-> u, ids |-> Range(ids),
                           status |-> 400]
                /\ UNCHANGED articles
        /\ UNCHANGED <<nextId, uploads, nextImage, now, req, env, users, client>>

\* ---------------------------------------------- POST /articles/:id/like
\* A request is two steps: findById (the handler decides like or unlike from
\* the document it read) and save (the delta goes to the store).  Between the
\* two, other requests run.
\*
\* Every save of an array path increments the stored __v, so the __v a request
\* read equals the stored one exactly when no other request saved an array of
\* the article since: req[r].fresh.  A response also records what the ledger
\* of invocations needs: before (the requester's membership and the size just
\* before the save), second (the request handled last was the same user's same
\* toggle of this article, with no save in between) and orig (before of that
\* earlier invocation).
Entry(arr, u) == u \in Range(arr)

Measure(arr, u) == [mem |-> Entry(arr, u), size |-> Len(arr)]

IsSecond(op, u, a) ==
    /\ res.op = op /\ res.status = 200
    /\ res.user = u /\ res.art = a /\ res.fresh

Found(op, u, a, arr) ==
    [phase |-> "read", op |-> op, user |-> u, art |-> a,
     existing |-> Entry(arr, u), snap |-> arr,
     fresh |-> TRUE, second |-> IsSecond(op, u, a)]

\* a save to article a moves __v away from what the other requests read
Saved(r, a) ==
    [q \in Reqs |->
        IF q = r THEN Idle
        ELSE IF req[q].phase = "read" /\ req[q].art = a
             THEN [req[q] EXCEPT !.fresh = FALSE]
             ELSE req[q]]

\* VersionError or DocumentNotFoundError: caught, 500, nothing written
Failed(r, op) ==
    /\ res' = [op |-> op, user |-> req[r].user, art |-> req[r].art, status |-> 500]
    /\ req' = [req EXCEPT ![r] = Idle]
    /\ UNCHANGED articles

Ledger(r, op, arr) ==
    LET second == req[r].second /\ req[r].fresh
                  /\ IsSecond(op, req[r].user, req[r].art)
    IN  [fresh |-> req[r].fresh, second |-> second,
         before |-> Measure(arr, req[r].user),
         orig |-> IF second THEN res.before ELSE Measure(arr, req[r].user)]

LikeFind(r, u, a) ==
    /\ req[r].phase = "idle"
    /\ IF ~articles[a].live
       THEN /\ res' = [op |-> "like", user |-> u, art |-> a, status |-> 404]
            /\ UNCHANGED req
       ELSE /\ req' = [req EXCEPT ![r] = Found("like", u, a, articles[a].likes)]
            /\ UNCHANGED res
    /\ UNCHANGED <<articles, nextId, uploads, nextImage, now, env, users, client>>

\* The save of a whole in-memory array: the array as read, with the new entry
PushLikeOverwrite(doc, snap, u) == [doc EXCEPT !.likes = Append(snap, u)]

\* article.likes.push(...) is saved as $push onto the stored array, whatever
\* array (snap) the request read
PushLike(doc, snap, u) == [doc EXCEPT !.likes = Append(@, u)]

\* article.likes = article.likes.filter(...) is saved as $set of the array
SetLikes(doc, arr) == [doc EXCEPT !.likes = arr]

LikeSave(r) ==
    LET u == req[r].user
        a == req[r].art
        doc == articles[a]
    IN  /\ req[r].phase = "read" /\ req[r].op = "like"
        /\ IF ~doc.live
           THEN Failed(r, "like")
           ELSE IF req[r].existing
           THEN \* unlike: $set with __v in the filter
                IF ~req[r].fresh
                THEN Failed(r, "like")
                ELSE /\ articles' = [articles EXCEPT
                            ![a] = SetLikes(doc, Without(req[r].snap, u))]
                     /\ res' = [op |-> "like", user |-> u, art |-> a, status |-> 200,
                                likesCount |-> Len(Without(req[r].snap, u)),
                                isLiked |-> FALSE]
                               @@ Ledger(r, "like", doc.likes)
                     /\ req' = Saved(r, a)
           ELSE \* like: $push, __v is only incremented
                /\ Len(doc.likes) < MaxLikes
                /\ articles' = [articles EXCEPT ![a] = PushLike(doc, req[r].snap, u)]
                /\ res' = [op |-> "like", user |-> u, art |-> a, status |-> 200,
                           likesCount |-> Len(req[r].snap) + 1,
                           isLiked |-> TRUE]
                          @@ Ledger(r, "like", doc.likes)
                /\ req' = Saved(r, a)
        /\ UNCHANGED <<nextId, uploads, nextImage, now, env, users, client>>

\* ------------------------------------------ POST /articles/:id/bookmark
BookmarkFind(r, u, a) ==
    /\ req[r].phase = "idle"
    /\ IF ~articles[a].live
       THEN /\ res' = [op |-> "bookmark", user |-> u, art |-> a, status |-> 404]
            /\ UNCHANGED req
       ELSE /\ req' = [req EXCEPT
                  ![r] = Found("bookmark", u, a, articles[a].bookmarks)]
            /\ UNCHANGED res
    /\ UNCHANGED <<articles, nextId, uploads, nextImage, now, env, users, client>>

\* article.bookmarks.push(id) is saved as $push
PushBookmark(doc, u) == [doc EXCEPT !.bookmarks = Append(@, u)]

\* article.bookmarks.pull(id) is saved as $pull on the stored array
PullBookmark(doc, u) == [doc EXCEPT !.bookmarks = Without(@, u)]

BookmarkSave(r) ==
    LET u == req[r].user
        a == req[r].art
        doc == articles[a]
    IN  /\ req[r].phase = "read" /\ req[r].op = "bookmark"
        /\ IF ~doc.live
           THEN Failed(r, "bookmark")
           ELSE IF req[r].existing
           THEN \* $pull carries __v in the filter
                IF ~req[r].fresh
                THEN Failed(r, "bookmark")
                ELSE /\ articles' = [articles EXCEPT ![a] = PullBookmark(doc, u)]
                     /\ res' = [op |-> "bookmark", user |-> u, art |-> a,
                                status |-> 200, isBookmarked |-> FALSE]
                               @@ Ledger(r, "bookmark", doc.bookmarks)
                     /\ req' = Saved(r, a)
           ELSE /\ Len(doc.bookmarks) < MaxLikes
                /\ articles' = [articles EXCEPT ![a] = PushBookmark(doc, u)]
                /\ res' = [op |-> "bookmark", user |-> u, art |-> a,
                           status |-> 200, isBookmarked |-> TRUE]
                          @@ Ledger(r, "bookmark", doc.bookmarks)
                /\ req' = Saved(r, a)
        /\ UNCHANGED <<nextId, uploads, nextImage, now, env, users, client>>

\* ------------------------------------------------- the comment endpoints
\* express-validator: content trimmed, 1 to 1000 characters
Contents == {"", "x", "y"}

ContentValid(content) == content # ""

CommentIds == 1..MaxComments

\* article.comments.id(commentId): the position of the comment, 0 when absent
CommentAt(doc, cid) ==
    IF \E i \in DOMAIN doc.comments : doc.comments[i].id = cid
    THEN CHOOSE i \in DOMAIN doc.comments : doc.comments[i].id = cid
    ELSE 0

\* POST /articles/:id/comments
AddCommentStatus(a, content) ==
    IF ~ContentValid(content) THEN 400
    ELSE IF ~articles[a].live THEN 404
    ELSE 201

AddComment(u, a, content) ==
    LET doc == articles[a]
        status == AddCommentStatus(a, content)
    IN  /\ status = 201 => doc.nextComment <= MaxComments
        /\ res' = [op |-> "commentAdd", user |-> u, art |-> a, status |-> status]
        /\ IF status = 201
           THEN articles' = [articles EXCEPT
                   ![a].comments = Append(@, [id |-> doc.nextComment, user |-> u,
                                              content |-> content]),
                   ![a].nextComment = @ + 1]
           ELSE UNCHANGED articles
        /\ UNCHANGED <<nextId, uploads, nextImage, now, req, env, users, client>>

\* PUT /articles/:id/comments/:commentId
EditCommentStatus(u, a, cid, content) ==
    IF ~ContentValid(content) THEN 400
    ELSE IF ~articles[a].live THEN 404
    ELSE IF CommentAt(articles[a], cid) = 0 THEN 404
    ELSE IF articles[a].comments[CommentAt(articles[a], cid)].user # u THEN 403
    ELSE 200

EditComment(u, a, cid, content) ==
    LET status == EditCommentStatus(u, a, cid, content)
    IN  /\ res' = [op |-> "commentEdit", user |-> u, art |-> a, status |-> status,
                   cid |-> cid]
        /\ IF status = 200
           THEN articles' = [articles EXCEPT
                   ![a].comments[CommentAt(articles[a], cid)].content = content]
           ELSE UNCHANGED articles
        /\ UNCHANGED <<nextId, uploads, nextImage, now, req, env, users, client>>

\* DELETE /articles/:id/comments/:commentId
DeleteCommentStatus(u, a, cid) ==
    IF ~articles[a].live THEN 404
    ELSE IF CommentAt(articles[a], cid) = 0 THEN 404
    ELSE IF /\ articles[a].comments[CommentAt(articles[a], cid)].user # u
            /\ articles[a].author # u THEN 403
    ELSE 200

\* article.comments.pull(commentId)
PullComment(doc, cid) ==
    [doc EXCEPT !.comments = SelectSeq(@, LAMBDA c : c.id # cid)]

DeleteComment(u, a, cid) ==
    LET status == DeleteCommentStatus(u, a, cid)
    IN  /\ res' = [op |-> "commentDelete", user |-> u, art |-> a,
                   status |-> status, cid |-> cid]
        /\ IF status = 200
           THEN articles' = [articles EXCEPT ![a] = PullComment(articles[a], cid)]
           ELSE UNCHANGED articles
        /\ UNCHANGED <<nextId, uploads, nextImage, now, req, env, users, client>>

\* -------------------------------------------- POST /auth/follow/:userId
\* findById(userId), findById(req.user._id), push or pull on both documents,
\* currentUser.save(), userToFollow.save(): four awaits.  push is saved as
\* $push, pull as $pull with __v in the filter, as for the articles.
FollowPhases == {"target", "decided", "half"}

Following == {r \in Reqs : req[r].phase \in FollowPhases}

\* the requests in flight after request r, now in state mine, saved document x:
\* the __v of x moved away from what the others read
UserSaved(r, x, mine) ==
    [q \in Reqs |->
        IF q = r THEN mine
        ELSE IF req[q].phase \in FollowPhases
             THEN [req[q] EXCEPT
                     !.freshTarget = @ /\ req[q].target # x,
                     !.freshCurrent = @ /\ (req[q].user # x \/ req[q].phase = "target")]
             ELSE req[q]]

FollowStart(r, u, target) ==
    /\ req[r] = Idle
    /\ IF target = u
       THEN /\ res' = [op |-> "follow", user |-> u, target |-> target, status |-> 400]
            /\ UNCHANGED req
       ELSE /\ req' = [req EXCEPT ![r] =
                          [phase |-> "target", op |-> "follow", user |-> u,
                           target |-> target, isFollowing |-> FALSE,
                           freshTarget |-> TRUE, freshCurrent |-> TRUE]]
            /\ UNCHANGED res
    /\ UNCHANGED <<articles, nextId, uploads, nextImage, now, env, users, client>>

\* currentUser is read: isFollowing = currentUser.following.includes(userId)
FollowRead(r) ==
    /\ req[r].phase = "target"
    /\ req' = [req EXCEPT ![r] =
                  [@ EXCEPT !.phase = "decided",
                            !.isFollowing = Entry(users[req[r].user].following,
                                                  req[r].target)]]
    /\ UNCHANGED <<articles, nextId, uploads, nextImage, now, res, env, users, client>>

FollowFailed(r) ==
    /\ res' = [op |-> "follow", user |-> req[r].user, target |-> req[r].target,
               status |-> 500]
    /\ req' = [req EXCEPT ![r] = Idle]
    /\ UNCHANGED users

\* await currentUser.save()
FollowSaveCurrent(r) ==
    LET u == req[r].user
        target == req[r].target
        mine == [req[r] EXCEPT !.phase = "half"]
    IN  /\ req[r].phase = "decided"
        /\ IF req[r].isFollowing
           THEN IF ~req[r].freshCurrent
                THEN FollowFailed(r)
                ELSE /\ users' = [users EXCEPT ![u].following = Without(@, target)]
                     /\ req' = UserSaved(r, u, mine)
                     /\ UNCHANGED res
           ELSE /\ Len(users[u].following) < MaxFollows
                /\ users' = [users EXCEPT ![u].following = Append(@, target)]
                /\ req' = UserSaved(r, u, mine)
                /\ UNCHANGED res
        /\ UNCHANGED <<articles, nextId, uploads, nextImage, now, env, client>>

\* await userToFollow.save(), then the response
FollowSaveTarget(r) ==
    LET u == req[r].user
        target == req[r].target
    IN  /\ req[r].phase = "half"
        /\ IF req[r].isFollowing /\ ~req[r].freshTarget
           THEN FollowFailed(r)
           ELSE /\ IF req[r].isFollowing
                   THEN users' = [users EXCEPT ![target].followers = Without(@, u)]
                   ELSE /\ Len(users[target].followers) < MaxFollows
                        /\ users' = [users EXCEPT ![target].followers = Append(@, u)]
                /\ res' = [op |-> "follow", user |-> u, target |-> target,
                           status |-> 200, isFollowing |-> ~req[r].isFollowing]
                /\ req' = UserSaved(r, target, Idle)
        /\ UNCHANGED <<articles, nextId, uploads, nextImage, now, env, client>>

\* ------------------------------------------- GET /articles/stats/overview
\* Promise.all of separate queries: the store answers each countDocuments at
\* its own time, in any order, and the response goes out with the last
\* answer.  The four aggregates of the handler feed other fields and are left
\* out.
Counts == {"totalArticles", "publishedArticles", "draftArticles"}

CountDocuments(u, which) ==
    Cardinality({a \in Articles :
        /\ articles[a].live /\ articles[a].author = u
        /\ (which = "publishedArticles" => articles[a].published)
        /\ (which = "draftArticles" => ~articles[a].published)})

StatsStart(r, u) ==
    /\ req[r] = Idle
    /\ req' = [req EXCEPT ![r] = [phase |-> "stats", op |-> "stats", user |-> u,
                                  counted |-> [which \in {} |-> 0]]]
    /\ UNCHANGED <<articles, nextId, uploads, nextImage, now, res, env, users, client>>

StatsCount(r, which) ==
    LET counted == req[r].counted @@ (which :> CountDocuments(req[r].user, which))
    IN  /\ req[r].phase = "stats"
        /\ which \in Counts \ DOMAIN req[r].counted
        /\ IF DOMAIN counted = Counts
           THEN /\ res' = [op |-> "stats", user |-> req[r].user, status |-> 200,
                           totalArticles |-> counted["totalArticles"],
                           publishedArticles |-> counted["publishedArticles"],
                           draftArticles |-> counted["draftArticles"]]
                /\ req' = [req EXCEPT ![r] = Idle]
           ELSE /\ req' = [req EXCEPT ![r].counted = counted]
                /\ UNCHANGED res
        /\ UNCHANGED <<articles, nextId, uploads, nextImage, now, env, users, client>>

\* ------------------------------------------------------------ list endpoints
\* The feed, the articles of a user and the trending handler read req.user only
\* to decorate the result with isLiked and isBookmarked; their query does not
\* depend on the requester, so they take none here.
\* find(query).sort(key: -1).skip((page - 1) * limit).limit(limit): the store
\* returns the matching documents in some order that is descending in the key
\* (documents with equal keys come in either order), and the handler cuts a page.
Orderings(S, key) ==
    {o \in [1..Cardinality(S) -> S] :
        /\ \A i, j \in DOMAIN o : i # j => o[i] # o[j]
        /\ \A i, j \in DOMAIN o : i < j => key[o[i]] >= key[o[j]]}

Min(x, y) == IF x <= y THEN x ELSE y

PageOf(o, page, limit) ==
    SubSeq(o, (page - 1) * limit + 1, Min(page * limit, Len(o)))

DefaultLimit == 10
\* (page, limit) of a list request: the default page, and two pages of one
PageRequests == {<<1, DefaultLimit>>, <<1, 1>>, <<2, 1>>}

PublishedAtKey == [a \in Articles |-> articles[a].publishedAt]

\* createdAt follows the order of creation, which is the order of the ids
CreatedAtKey == [a \in Articles |-> a]

\* GET /articles: query = {published: true} and, when given, author
FeedQuery(author) ==
    {a \in Articles :
        /\ articles[a].live /\ articles[a].published
        /\ (author # 0 => articles[a].author = author)}

GetArticles(author, page, limit) ==
    /\ \E o \in Orderings(FeedQuery(author), PublishedAtKey) :
          res' = [op |-> "feed", status |-> 200,
                  ids |-> PageOf(o, page, limit)]
    /\ UNCHANGED <<articles, nextId, uploads, nextImage, now, req, env, users, client>>

\* GET /articles/user/:userId: query = {author: userId, published: true}
UserQuery(userId) ==
    {a \in Articles :
        articles[a].live /\ articles[a].author = userId /\ articles[a].published}

GetUserArticles(userId, page, limit) ==
    /\ \E o \in Orderings(UserQuery(userId), PublishedAtKey) :
          res' = [op |-> "userArticles", status |-> 200,
                  ids |-> PageOf(o, page, limit)]
    /\ UNCHANGED <<articles, nextId, uploads, nextImage, now, req, env, users, client>>

\* GET /articles/user/bookmarks: query = {bookmarks: req.user._id, published: true}
BookmarksQuery(u) ==
    {a \in Articles :
        articles[a].live /\ Entry(articles[a].bookmarks, u) /\ articles[a].published}

GetBookmarks(u, page, limit) ==
    /\ \E o \in Orderings(BookmarksQuery(u), CreatedAtKey) :
          res' = [op |-> "bookmarks", status |-> 200,
                  ids |-> PageOf(o, page, limit)]
    /\ UNCHANGED <<articles, nextId, uploads, nextImage, now, req, env, users, client>>

\* The trending handler: query = {published: true, publishedAt >= now - days},
\* an unset publishedAt matches no $gte.  The clock counts days.  The router
\* registers the route after /:id; the handler is modelled as it answers
\* once reached.
DefaultDays == 7

\* req.query.days: absent (the empty sequence) or one integer
DaysQueries == {<<>>, <<0>>, <<1>>}

\* parseInt(req.query.days) || 7: NaN and 0 are both falsy
ParseDays(q) ==
    IF q = <<>> THEN DefaultDays
    ELSE IF q[1] = 0 THEN DefaultDays
    ELSE q[1]

TrendingQuery(q) ==
    {a \in Articles :
        /\ articles[a].live /\ articles[a].published
        /\ articles[a].publishedAt # 0
        /\ articles[a].publishedAt >= now - ParseDays(q)}

ViewsKey == [a \in Articles |-> articles[a].views]

\* The sort key 'likes.length' is the path "length" inside the elements of
\* likes; no element has such a field, so every document with likes has the
\* same (null) key, however many likes it has.  Where a document with an
\* empty likes array sorts relative to null is the store's choice.
LikesLengthKeys ==
    {[a \in Articles |-> IF articles[a].likes = <<>> THEN e ELSE 0] :
        e \in {-1, 0}}

\* a comes no later than b under sort({views: -1, 'likes.length': -1,
\* publishedAt: -1})
SortsBefore(a, b, k) ==
    \/ ViewsKey[a] > ViewsKey[b]
    \/ /\ ViewsKey[a] = ViewsKey[b]
       /\ \/ k[a] > k[b]
          \/ /\ k[a] = k[b]
             /\ articles[a].publishedAt >= articles[b].publishedAt

TrendingOrderings(S, k) ==
    {o \in [1..Cardinality(S) -> S] :
        /\ \A i, j \in DOMAIN o : i # j => o[i] # o[j]
        /\ \A i, j \in DOMAIN o : i < j => SortsBefore(o[i], o[j], k)}

GetTrending(q, page, limit) ==
    /\ \E k \in LikesLengthKeys : \E o \in TrendingOrderings(TrendingQuery(q), k) :
          res' = [op |-> "trending", status |-> 200,
                  ids |-> PageOf(o, page, limit)]
    /\ UNCHANGED <<articles, nextId, uploads, nextImage, now, req, env, users, client>>

\* ------------------------------------------------ the Trending page (client)
\* A displayed article is written as the days value its response was asked
\* for; every successful response is taken to carry one article.  A request
\* is in flight from its api.get to the resumption of loadTrendingArticles.
Timeframes == {7, 30, 90}

Appending == {i \in DOMAIN client.inflight : ~client.inflight[i].reset}

\* handleTimeframeChange, the render it causes and, when timeframe changed,
\* the effect: loadTrendingArticles(true)
SelectTimeframe(t) ==
    /\ IF t = client.timeframe
       THEN client' = [client EXCEPT !.page = 1]
       ELSE /\ Len(client.inflight) < MaxInflight
            /\ client' = [client EXCEPT
                             !.timeframe = t, !.page = 1, !.loading = TRUE,
                             !.inflight = Append(@, TrendingRequest(t, 1, TRUE))]
    /\ UNCHANGED <<articles, nextId, uploads, nextImage, now, req, res, env, users>>

\* the Load More button is rendered under a non-empty list while hasMore and
\* is disabled while loading: loadTrendingArticles()
LoadMore ==
    /\ client.articles # <<>> /\ client.hasMore /\ ~client.loading
    /\ Len(client.inflight) < MaxInflight
    /\ Len(client.articles) + Cardinality(Appending) < MaxShown
    /\ client' = [client EXCEPT
                     !.loading = TRUE,
                     !.inflight = Append(@, TrendingRequest(client.timeframe,
                                                            client.page, FALSE))]
    /\ UNCHANGED <<articles, nextId, uploads, nextImage, now, req, res, env, users>>

RemoveAt(s, i) == SubSeq(s, 1, i - 1) \o SubSeq(s, i + 1, Len(s))

\* the response of request i arrives: ok with pagination.pages = pages, or an
\* error; the rest of loadTrendingArticles runs
Respond(i, ok, pages) ==
    LET request == client.inflight[i]
        rest == RemoveAt(client.inflight, i)
    IN  /\ i \in DOMAIN client.inflight
        /\ client' =
              IF ~ok
              THEN [client EXCEPT !.loading = FALSE, !.inflight = rest]
              ELSE IF request.reset
              THEN [client EXCEPT
                      !.articles = <<request.days>>, !.page = 2,
                      !.hasMore = request.page < pages,
                      !.loading = FALSE, !.inflight = rest]
              ELSE [client EXCEPT
                      !.articles = Append(@, request.days), !.page = @ + 1,
                      !.hasMore = request.page < pages,
                      !.loading = FALSE, !.inflight = rest]
        /\ UNCHANGED <<articles, nextId, uploads, nextImage, now, req, res, env, users>>

\* ------------------------------------------------------- the router, GET
\* A path below the mount point is a sequence of segments: a literal word or
\* an ObjectId (of an article or of a user).  No literal of the routes is an
\* ObjectId: mongoose.Types.ObjectId.isValid wants 12 bytes or 24 hex digits.
Lit(word) == [kind |-> "lit", val |-> word]

Id(n) == [kind |-> "id", val |-> n]

Param == [kind |-> "param", val |-> ":"]

\* the GET routes in the order of their registration
GetRoutes ==
    << [pattern |-> <<>>, handler |-> "feed"],
       [pattern |-> <<Param>>, handler |-> "detail"],
       [pattern |-> <<Lit("user"), Lit("my-articles")>>, handler |-> "myArticles"],
       [pattern |-> <<Lit("user"), Lit("bookmarks")>>, handler |-> "bookmarks"],
       [pattern |-> <<Lit("user"), Param>>, handler |-> "userArticles"],
       [pattern |-> <<Lit("stats"), Lit("overview")>>, handler |-> "stats"],
       [pattern |-> <<Lit("trending")>>, handler |-> "trending"] >>

Matches(pattern, path) ==
    /\ Len(pattern) = Len(path)
    /\ \A i \in DOMAIN pattern : pattern[i] = Param \/ pattern[i] = path[i]

\* express takes the first route that matches
Dispatch(path) ==
    LET hits == {i \in DOMAIN GetRoutes : Matches(GetRoutes[i].pattern, path)}
    IN  IF hits = {} THEN "none"
        ELSE GetRoutes[CHOOSE i \in hits : \A j \in hits : i <= j].handler

\* validateObjectId, validateUserId: 400 for a parameter that is no ObjectId
InvalidId ==
    /\ res' = [op |-> "invalidId", status |-> 400]
    /\ UNCHANGED <<articles, nextId, uploads, nextImage, now, req, env, users, client>>

GetPaths ==
    {<<>>, <<Lit("trending")>>, <<Lit("user"), Lit("bookmarks")>>}
    \cup {<<Id(a)>> : a \in Articles}
    \cup {<<Lit("user"), Id(u)>> : u \in Users}

\* GET path by requester u with the query (author, days, page, limit)
Get(u, path, author, days, pr) ==
    LET handler == Dispatch(path)
    IN  CASE handler = "feed" -> GetArticles(author, pr[1], pr[2])
          [] handler = "detail" ->
                IF path[1].kind = "id" THEN GetArticle(u, path[1].val) ELSE InvalidId
          [] handler = "bookmarks" ->
                \* behind authenticateToken: the request carries a token
                u # Anonymous /\ GetBookmarks(u, pr[1], pr[2])
          [] handler = "userArticles" ->
                IF path[2].kind = "id" THEN GetUserArticles(path[2].val, pr[1], pr[2])
                ELSE InvalidId
          [] handler = "trending" -> GetTrending(days, pr[1], pr[2])

\* ------------------------------------------------------------------ claims
Live(a) == articles[a].live

StaysLive(a) == articles[a].live /\ articles'[a].live

\* C1: once an article's publishedAt is set, no later operation changes it.
PublishedAtNeverChanges ==
    [][\A a \in Articles :
          StaysLive(a) /\ articles[a].publishedAt # 0
          => articles'[a].publishedAt = articles[a].publishedAt]_vars

NoDuplicates(arr) == Len(arr) = Cardinality(Range(arr))

\* C2: in every reachable state the likes of an article hold at most one entry
\* per user.
LikesOnePerUser == \A a \in Articles : NoDuplicates(articles[a].likes)

\* C3: a like request that found no entry of its user adds that user's entry
\* and keeps the entry of every other user, whatever was saved to the article
\* between its read and its save; so two overlapping likes of two users who had
\* not liked both register.
OverlappingLikesBothRegister ==
    [][\A r \in Reqs :
          (LikeSave(r) /\ Live(req[r].art) /\ ~req[r].existing)
          => /\ res'.status = 200
             /\ Entry(articles'[req[r].art].likes, req[r].user)
             /\ \A w \in Users :
                   Entry(articles[req[r].art].likes, w)
                   => Entry(articles'[req[r].art].likes, w)]_vars

\* a like answered 200 by a request that read an empty array, while another
\* user's like was saved between its read and its save: both entries are there
BothLikesRegistered ==
    /\ res.op = "like" /\ res.status = 200 /\ res.isLiked
    /\ res.likesCount = 1 /\ ~res.fresh
    /\ Len(articles[res.art].likes) = 2
    /\ \E w \in Users \ {res.user} : Entry(articles[res.art].likes, w)
    /\ Entry(articles[res.art].likes, res.user)

Toggled(a, op) == IF op = "like" THEN articles[a].likes ELSE articles[a].bookmarks

\* C4: like and bookmark are involutions: the second of two consecutive
\* invocations by a user restores the user's membership and the size of the
\* set, and every invocation reports the flipped state and, for likes, the
\* new count.
ToggleInvolution ==
    (res.op \in {"like", "bookmark"} /\ res.status = 200 /\ res.fresh)
    => /\ res.second => Measure(Toggled(res.art, res.op), res.user) = res.orig
       /\ Entry(Toggled(res.art, res.op), res.user) = ~res.before.mem
       /\ res.op = "like"
          => /\ res.isLiked = Entry(articles[res.art].likes, res.user)
             /\ res.likesCount = Len(articles[res.art].likes)
       /\ res.op = "bookmark"
          => res.isBookmarked = Entry(articles[res.art].bookmarks, res.user)

\* a draft, seen by a requester who is not its author
HiddenFrom(a, u) == Live(a) /\ ~articles[a].published /\ articles[a].author # u

\* The step is the handling of a request of kind op: every handler assigns res,
\* and the steps that leave it alone move the clock or start a request.
Handled(op) == res'.op = op /\ now' = now /\ req' = req

\* C5: for a draft and a requester other than its author, the detail endpoint
\* answers 404 and changes nothing; and no list endpoint (feed, articles of a
\* user, bookmarks, trending) returns a draft at all, so none returns it to
\* such a requester.
DraftsHidden ==
    [][/\ (Handled("detail") /\ HiddenFrom(res'.art, res'.user))
          => res'.status = 404 /\ articles' = articles
       /\ (\E op \in {"feed", "userArticles", "bookmarks", "trending"} : Handled(op))
          => \A i \in DOMAIN res'.ids :
                Live(res'.ids[i]) /\ articles[res'.ids[i]].published]_vars

\* the detail of a draft was refused to a requester who is not its author,
\* while the draft carries a bookmark of another user
DraftRefused ==
    /\ res.op = "detail" /\ res.status = 404
    /\ HiddenFrom(res.art, res.user)
    /\ articles[res.art].bookmarks # <<>>

NotAuthor(u, a) == Live(a) /\ articles[a].author # u

Untouched == articles' = articles /\ uploads' = uploads

\* the step answers a request of kind op by user u about article a
HandledFor(op, u, a) == Handled(op) /\ res'.user = u /\ res'.art = a

\* C6, as stated: update, delete and image upload by an authenticated user who
\* is not the author of the (existing) article answer 403 and leave the article
\* and the stored images as they are.
NonAuthorAlwaysForbidden ==
    [][\A op \in {"update", "delete", "image"} :
          (Handled(op) /\ NotAuthor(res'.user, res'.art))
          => Untouched /\ res'.status = 403]_vars

\* C6, amended: such a request leaves the article and the stored images as they
\* are, and answers 403 when it is well-formed (a body that passes validation,
\* a non-empty file); a malformed one is refused earlier, with 400.
NonAuthorRefused ==
    [][\A u \in Users, a \in Articles :
          NotAuthor(u, a)
          => /\ \A body \in PutBodies :
                   (HandledFor("update", u, a) /\ UpdateArticle(u, a, body))
                   => /\ Untouched
                      /\ res'.status = IF PutBodyValid(body) THEN 403 ELSE 400
             /\ \A released \in BOOLEAN :
                   (HandledFor("delete", u, a) /\ DeleteArticle(u, a, released))
                   => Untouched /\ res'.status = 403
             /\ \A file \in Files, released \in BOOLEAN, stored \in BOOLEAN :
                   (/\ HandledFor("image", u, a)
                    /\ UploadArticleImage(u, a, file, released, stored))
                   => /\ Untouched
                      /\ res'.status = IF file = "image" THEN 403 ELSE 400]_vars

\* a non-author was refused on an article that holds a stored image
NonAuthorWasRefused ==
    /\ res.op \in {"update", "delete", "image"} /\ res.status = 403
    /\ NotAuthor(res.user, res.art)
    /\ articles[res.art].featuredImage \in uploads

\* C7: the author of an article never changes after creation.
AuthorNeverChanges ==
    [][\A a \in Articles :
          StaysLive(a) => articles'[a].author = articles[a].author]_vars

\* C8: a bulk delete with an id that is not found or not owned by the
\* requester answers 403, deletes no article and releases no image.
BulkDeleteAllOrNothing ==
    [][(/\ Handled("bulkDelete")
        /\ \E a \in res'.ids : ~Live(a) \/ articles[a].author # res'.user)
       => Untouched /\ res'.status = 403]_vars

\* a bulk delete over an own article with a stored image and a foreign or
\* missing one was refused
BulkDeleteRefused ==
    /\ res.op = "bulkDelete" /\ res.status = 403
    /\ \E a \in res.ids :
          /\ Live(a) /\ articles[a].author = res.user
          /\ articles[a].featuredImage \in uploads
    /\ \E a \in res.ids : ~Live(a) \/ articles[a].author # res.user

\* C9: a bulk update changes only the listed articles of the requester, leaves
\* every other article as it is, and reports as modifiedCount the number of
\* listed articles of the requester; it fails only with 400, and never when
\* the body carries an allowed key, whatever ids are listed.
BulkUpdateOnlyOwn ==
    [][Handled("bulkUpdate")
       => /\ \A a \in Articles :
                (a \notin res'.ids \/ ~Live(a) \/ articles[a].author # res'.user)
                => articles'[a] = articles[a]
          /\ res'.status \in {200, 400}
          /\ res'.status = 200
             => res'.modifiedCount =
                   Cardinality({a \in res'.ids :
                                   Live(a) /\ articles[a].author = res'.user})
          /\ res'.status = 400
             => \A ids \in IdLists, updates \in BulkBodies :
                   (/\ Range(ids) = res'.ids
                    /\ Has(updates, "published") \/ Has(updates, "category"))
                   => ~BulkUpdate(res'.user, ids, updates)]_vars

\* a bulk update over an own and a foreign article modified one: the own one
\* is published, the foreign one is still a draft
BulkUpdateSkippedForeign ==
    /\ res.op = "bulkUpdate" /\ res.status = 200 /\ res.modifiedCount = 1
    /\ Cardinality(res.ids) = 2
    /\ \A a \in res.ids : Live(a)
    /\ \E a \in res.ids : articles[a].author = res.user /\ articles[a].published
    /\ \E a \in res.ids : articles[a].author # res.user /\ ~articles[a].published

\* C10: the views of an article never decrease.
ViewsNeverDecrease ==
    [][\A a \in Articles :
          StaysLive(a) => articles'[a].views >= articles[a].views]_vars

\* C11: a detail read that returns the article adds exactly one to the stored
\* views of that article and changes nothing else, whoever the requester is
\* and whatever other reads overlap it; no other step of the reading and
\* publishing endpoints changes views.  So n reads add exactly n.
EachReadCountsOnce ==
    [][\A a \in Articles :
          StaysLive(a)
          => IF \E r \in Reqs : req[r].phase = "read" /\ req[r].art = a /\ DetailInc(r)
             THEN articles' = [articles EXCEPT ![a].views = @ + 1]
             ELSE articles'[a].views = articles[a].views]_vars

\* two reads of one article overlapped, one anonymous and one by the author:
\* the answer of the second still says 1, the store counts 2
OverlappingReadsCounted ==
    /\ res.op = "detail" /\ res.status = 200 /\ res.views = 1
    /\ Live(res.art) /\ articles[res.art].views = 2
    /\ res.user \in {Anonymous, articles[res.art].author}

\* the comments of a that carry the id of c after the step
KeptAs(a, c) ==
    {j \in DOMAIN articles'[a].comments : articles'[a].comments[j].id = c.id}

\* the step answers a request of kind op about an existing comment
CommentRequest(op) ==
    /\ Handled(op) /\ Live(res'.art)
    /\ CommentAt(articles[res'.art], res'.cid) # 0

\* the comment that request is about
TargetComment == articles[res'.art].comments[CommentAt(articles[res'.art], res'.cid)]

\* C12: whatever the operation, a comment disappears from an article only by a
\* request of its own author or of the article's author, and its content
\* changes only by a request of its own author; an edit by anyone but the
\* comment's author, and a deletion by anyone but the comment's or the
\* article's author, is refused (403, or 400 for an invalid content) and
\* leaves the articles as they are.
CommentsGuarded ==
    [][/\ \A a \in Articles :
             StaysLive(a)
             => \A i \in DOMAIN articles[a].comments :
                   LET c == articles[a].comments[i]
                   IN  /\ KeptAs(a, c) = {}
                          => res'.user \in {c.user, articles[a].author}
                       /\ \A j \in KeptAs(a, c) :
                             articles'[a].comments[j].content # c.content
                             => res'.user = c.user
       /\ (CommentRequest("commentEdit") /\ res'.user # TargetComment.user)
          => res'.status \in {400, 403} /\ articles' = articles
       /\ (/\ CommentRequest("commentDelete")
           /\ res'.user \notin {TargetComment.user, articles[res'.art].author})
          => res'.status = 403 /\ articles' = articles]_vars

\* C13: the likes, bookmarks and comments of an article change only by a like,
\* bookmark or comment request, a like or bookmark request touching only the
\* entries of its requester; in particular a PUT /articles/:id leaves the
\* three arrays as they are.
EngagementFrame ==
    [][\A a \in Articles :
          StaysLive(a)
          => /\ articles'[a].likes # articles[a].likes
                => /\ res'.op = "like"
                   /\ Without(articles'[a].likes, res'.user)
                        = Without(articles[a].likes, res'.user)
             /\ articles'[a].bookmarks # articles[a].bookmarks
                => /\ res'.op = "bookmark"
                   /\ Without(articles'[a].bookmarks, res'.user)
                        = Without(articles[a].bookmarks, res'.user)
             /\ articles'[a].comments # articles[a].comments
                => res'.op \in {"commentAdd", "commentEdit", "commentDelete"}]_vars

\* C14: in every reachable state the publishedAt of an article is set exactly
\* when its published flag was true after some write of its history.
PublishedAtIffEverPublished ==
    \A a \in Articles :
       Live(a) => (articles[a].publishedAt # 0 <=> articles[a].everPublished)

Max(x, y) == IF x >= y THEN x ELSE y

\* C15: after every write that changes the content of an article (create or
\* PUT), readTime = max(1, ceil(words / 200)), words being the number of words
\* of the content, whatever whitespace leads, trails or separates them.
ReadTimeFromWords ==
    [][\A a \in Articles :
          (articles'[a].live /\ articles'[a].content # articles[a].content)
          => articles'[a].readTime
               = Max(1, CeilDiv(articles'[a].content.words, WordsPerMinute))]_vars

\* C16: the excerpt of every stored article is at most 300 characters long.
ExcerptWithinLimit ==
    \A a \in Articles : Live(a) => articles[a].excerpt <= ExcerptLimit

\* C17: in every reachable state the category of every article is one of the
\* eight values of the enumeration.
CategoryInEnum ==
    \A a \in Articles : Live(a) => articles[a].category \in CategoryEnum

\* C18: GET /articles/trending is handled by the trending handler and answers
\* 200 with the ranked page.
TrendingRouted ==
    [][\A u \in Requesters, days \in DaysQueries, pr \in PageRequests :
          Get(u, <<Lit("trending")>>, 0, days, pr)
          => res'.op = "trending" /\ res'.status = 200]_vars

MoreEngaged(a, b) ==
    /\ Len(articles[a].likes) >= Len(articles[b].likes)
    /\ Len(articles[a].comments) >= Len(articles[b].comments)
    /\ \/ Len(articles[a].likes) > Len(articles[b].likes)
       \/ Len(articles[a].comments) > Len(articles[b].comments)

SameEngagement(a, b) ==
    /\ Len(articles[a].likes) = Len(articles[b].likes)
    /\ Len(articles[a].comments) = Len(articles[b].comments)

\* C19: the trending result is ordered by views descending; among equal
\* views the article with more likes and comments comes first; among equal
\* views and equal engagement the later publishedAt comes first.
TrendingByEngagement ==
    [][Handled("trending")
       => \A i, j \in DOMAIN res'.ids : i < j =>
            LET a == res'.ids[i]
                b == res'.ids[j]
            IN  /\ articles[a].views >= articles[b].views
                /\ articles[a].views = articles[b].views => ~MoreEngaged(b, a)
                /\ articles[a].views = articles[b].views /\ SameEngagement(a, b)
                   => articles[a].publishedAt >= articles[b].publishedAt]_vars

\* the number of days a request asks for: its integer, or 7 without one
RequestedDays(q) == IF q = <<>> THEN DefaultDays ELSE q[1]

\* C20: for a request with days = N (7 when absent) the trending candidates
\* are exactly the published articles with publishedAt within the last N
\* days; the default page of at most two candidates shows them all.
TrendingWindow ==
    [][\A q \in DaysQueries :
          GetTrending(q, 1, DefaultLimit)
          => {res'.ids[i] : i \in DOMAIN res'.ids}
             = {a \in Articles :
                  /\ Live(a) /\ articles[a].published
                  /\ articles[a].publishedAt # 0
                  /\ articles[a].publishedAt >= now - RequestedDays(q)}]_vars

\* the spec's visibility rule for requester u
VisibleTo(a, u) ==
    Live(a) /\ (articles[a].published \/ (u # Anonymous /\ articles[a].author = u))

\* C21: a list request (the feed with its author filter, the articles of a
\* user) returns exactly the articles that match the filter and are published
\* or written by the requester; the default page shows them all.
ListsShowVisible ==
    [][\A u \in Requesters :
          /\ \A author \in {0} \cup Users :
                GetArticles(author, 1, DefaultLimit)
                => Range(res'.ids)
                   = {a \in Articles : /\ VisibleTo(a, u)
                                       /\ (author # 0 => articles[a].author = author)}
          /\ \A userId \in Users :
                GetUserArticles(userId, 1, DefaultLimit)
                => Range(res'.ids)
                   = {a \in Articles : VisibleTo(a, u) /\ articles[a].author = userId}]_vars

\* C22: while the remote storage is configured, a failed remote upload is
\* followed by one local write and, when that write succeeds, the request
\* succeeds with a locally served image: for the article image and the avatar.
RemoteFailureFallsBack ==
    [][/\ \A r \in Reqs :
             UploadRemoteDone(r, FALSE) => req'[r].phase = "fallback"
       /\ \A r \in Reqs :
             UploadFallbackDone(r, TRUE)
             => req'[r].phase = "save" /\ IsLocal(req'[r].image)
       /\ \A u \in Users, released \in BOOLEAN :
             IsCloudinaryConfigured /\ UploadAvatar(u, "image", released, FALSE, TRUE)
             => res'.status = 200 /\ IsLocal(users'[u].avatar)]_vars

\* payloads the spec has rejected before any storage action
BadPayloads == {"empty", "oversize", "badtype"}

\* C23: an image upload (article image or avatar) with an empty, oversized or
\* disallowed payload is refused and touches nothing: no image is stored or
\* deleted and the stored image reference stays as it was.
BadPayloadTouchesNothing ==
    [][/\ \A r \in Reqs, u \in Users, a \in Articles, file \in BadPayloads :
             UploadStart(r, u, a, file)
             => /\ res'.status # 200
                /\ Untouched /\ req' = req /\ nextImage' = nextImage
       /\ \A u \in Users, file \in BadPayloads, released, remoteOk, localOk \in BOOLEAN :
             UploadAvatar(u, file, released, remoteOk, localOk)
             => /\ res'.status # 200
                /\ uploads' = uploads /\ users' = users]_vars

\* C24: a single delete or a bulk delete by the author of articles whose
\* image could not be released still deletes the articles and answers 200.
DeleteSurvivesImageFailure ==
    [][/\ \A u \in Users, a \in Articles :
             /\ Live(a) /\ articles[a].author = u /\ articles[a].featuredImage # 0
             /\ DeleteArticle(u, a, FALSE)
             => res'.status = 200 /\ ~articles'[a].live
       /\ \A u \in Users, ids \in IdLists, releasedSet \in SUBSET Articles :
             /\ \A i \in DOMAIN ids : Live(ids[i]) /\ articles[ids[i]].author = u
             /\ \A i, j \in DOMAIN ids : i # j => ids[i] # ids[j]
             /\ \E i \in DOMAIN ids : /\ articles[ids[i]].featuredImage # 0
                                       /\ ids[i] \notin releasedSet
             /\ BulkDelete(u, ids, releasedSet)
             => res'.status = 200 /\ \A i \in DOMAIN ids : ~articles'[ids[i]].live]_vars

\* the only article ever created had the only image ever stored; the article
\* was deleted with success and the image is still in the storage
DeletedWithImageLeft ==
    /\ res.op = "delete" /\ res.status = 200
    /\ nextId = 2 /\ nextImage = 2
    /\ ~Live(1) /\ uploads = {1}

\* C25: in every response of the statistics overview the number of drafts is
\* the total minus the number of published articles.
DraftsAreTheRest ==
    res.op = "stats" => res.draftArticles = res.totalArticles - res.publishedArticles

\* C26: a like, a bookmark or a (valid) comment by a user other than the
\* author on an unpublished article is answered 404 at once and changes
\* nothing.
DraftsNotEngaged ==
    [][\A u \in Users, a \in Articles :
          HiddenFrom(a, u)
          => /\ \A content \in Contents :
                   ContentValid(content) /\ AddComment(u, a, content)
                   => res'.status = 404 /\ Untouched
             /\ \A r \in Reqs :
                   LikeFind(r, u, a) \/ BookmarkFind(r, u, a)
                   => res'.status = 404 /\ req' = req /\ Untouched]_vars

\* C27: once no image upload is in flight, CLOUDINARY_CLOUD_NAME holds the
\* value it had before the uploads started.
CloudNameRestored == Uploading = {} => env = CloudName

\* C28: when an article image request or an avatar request ends, with success
\* or failure, the image the record names (if it names one) is in the storage.
StoredImageExists ==
    [][/\ \A r \in Reqs :
             req[r].phase \in UploadPhases /\ req'[r] = Idle
             => LET doc == articles'[req[r].art]
                IN  doc.live /\ doc.featuredImage # 0 => doc.featuredImage \in uploads'
       /\ \A u \in Users, file \in Payloads, released, remoteOk, localOk \in BOOLEAN :
             UploadAvatar(u, file, released, remoteOk, localOk)
             => (users'[u].avatar # 0 => users'[u].avatar \in uploads')]_vars

\* C29: once no follow request is in flight, B is in A's following exactly
\* when A is in B's followers, for all distinct users A and B, and no user is
\* in their own following or followers.
FollowSymmetric ==
    Following = {}
    => \A A, B \in Users :
          IF A = B
          THEN ~Entry(users[A].following, A) /\ ~Entry(users[A].followers, A)
          ELSE Entry(users[A].following, B) <=> Entry(users[B].followers, A)

\* C30: once no request of the Trending page is in flight, every displayed
\* article comes from a response asked for the selected timeframe.
DisplayedMatchTimeframe ==
    client.inflight = <<>>
    => \A i \in DOMAIN client.articles : client.articles[i] = client.timeframe

\* ---------------------------------------------------------- specifications
\* The lifecycle of one article: create, read, update and bulk update, with
\* time
Next ==
    \/ Tick
    \/ \E u \in Users, body \in CreateBodies :
          /\ nextId <= EngagedArticles
          /\ CreateArticle(u, body)
    \/ \E u \in Requesters, a \in Articles : GetArticle(u, a)
    \/ \E u \in Users, a \in Articles, body \in PutBodies : UpdateArticle(u, a, body)
    \/ \E u \in Users, ids \in IdLists, updates \in BulkSingles :
          BulkUpdate(u, ids, updates)

Spec == Init /\ [][Next]_vars

\* The engagement endpoints alone, on articles created published or draft
NextEngage ==
    \/ \E p \in BOOLEAN :
          /\ nextId <= EngagedArticles
          /\ CreateArticle(1, [published |-> p, category |-> "Other"])
    \/ \E r \in Reqs, u \in Users, a \in Articles : LikeFind(r, u, a)
    \/ \E r \in Reqs : LikeSave(r)
    \/ \E r \in Reqs, u \in Users, a \in Articles : BookmarkFind(r, u, a)
    \/ \E r \in Reqs : BookmarkSave(r)

SpecEngage == Init /\ [][NextEngage]_vars

\* Deletion and images: the author-only mutations and the bulk delete
NextRemove ==
    \/ \E u \in Users, p \in BOOLEAN :
          CreateArticle(u, [published |-> p, category |-> "Other"])
    \/ \E u \in Users, a \in Articles,
          body \in {[published |-> TRUE], [category |-> "Bogus"]} :
          UpdateArticle(u, a, body)
    \/ \E u \in Users, a \in Articles, released \in BOOLEAN :
          DeleteArticle(u, a, released)
    \/ \E u \in Users, a \in Articles, file \in Files, released \in BOOLEAN,
          stored \in BOOLEAN : UploadArticleImage(u, a, file, released, stored)
    \/ \E u \in Users, ids \in IdLists, releasedSet \in SUBSET Articles :
          BulkDelete(u, ids, releasedSet)

SpecRemove == Init /\ [][NextRemove]_vars

\* The bulk update over articles that are created, read and restamped, with time
NextBulk ==
    \/ Tick
    \/ \E u \in Users, p \in BOOLEAN :
          CreateArticle(u, [published |-> p, category |-> "Other"])
    \/ \E u \in Users, ids \in IdLists, updates \in BulkBodies :
          BulkUpdate(u, ids, updates)

SpecBulk == Init /\ [][NextBulk]_vars

\* Detail reads that overlap each other, publishing and deletion
NextViews ==
    \/ \E u \in Users, p \in BOOLEAN :
          /\ nextId <= EngagedArticles
          /\ CreateArticle(u, [published |-> p, category |-> "Other"])
    \/ \E u \in Users, a \in Articles, p \in BOOLEAN :
          UpdateArticle(u, a, [published |-> p])
    \/ \E u \in Users, a \in Articles : DeleteArticle(u, a, TRUE)
    \/ \E r \in Reqs, u \in Requesters, a \in Articles : DetailFind(r, u, a)
    \/ \E r \in Reqs : DetailInc(r)

SpecViews == Init /\ [][NextViews]_vars

\* what a client that read the article can send back as its comments: the
\* same comments with another content
Rewritten(comments) == [i \in DOMAIN comments |-> [comments[i] EXCEPT !.content = "z"]]

\* PUT bodies that carry the engagement arrays
ArrayBodies(a) ==
    {[published |-> TRUE], [likes |-> <<>>], [bookmarks |-> <<>>],
     [comments |-> <<>>], [comments |-> Rewritten(articles[a].comments)]}

\* The comments of one article, and the PUT of its author
NextComments ==
    \/ \E u \in Users, p \in BOOLEAN :
          /\ nextId <= EngagedArticles
          /\ CreateArticle(u, [published |-> p, category |-> "Other"])
    \/ \E u \in Users, a \in Articles, content \in Contents : AddComment(u, a, content)
    \/ \E u \in Users, a \in Articles, cid \in CommentIds, content \in Contents :
          EditComment(u, a, cid, content)
    \/ \E u \in Users, a \in Articles, cid \in CommentIds : DeleteComment(u, a, cid)
    \/ \E u \in Users, a \in Articles :
          \E body \in ArrayBodies(a) : UpdateArticle(u, a, body)

SpecComments == Init /\ [][NextComments]_vars

\* contents around the thresholds of the hook: 200 words, 300 characters
WrittenContents ==
    {EmptyContent} \cup
    {c \in [lead : BOOLEAN, words : {0, 1, WordsPerMinute}, trail : BOOLEAN,
            plain : {ExcerptLimit - 1, ExcerptLimit, ExcerptLimit + 1}] :
        c.words = 0 => c.lead /\ c.trail}

\* excerpts of a request: none, the longest allowed, one too long
WrittenExcerpts == {0, ExcerptLimit, ExcerptLimit + 1}

\* Writing content: create and PUT of one article with content and excerpt
NextWrite ==
    \/ \E u \in Users, c \in WrittenContents, e \in WrittenExcerpts :
          /\ nextId <= EngagedArticles
          /\ CreateArticle(u, [published |-> FALSE, category |-> "Other",
                               content |-> c, excerpt |-> e])
    \/ \E u \in Users, a \in Articles, c \in WrittenContents :
          UpdateArticle(u, a, [content |-> c])
    \/ \E u \in Users, a \in Articles, e \in WrittenExcerpts :
          UpdateArticle(u, a, [excerpt |-> e])

SpecWrite == Init /\ [][NextWrite]_vars

\* category values of a request: two of the enumeration and one outside it
RequestedCategories == {"Technology", "Health", "Bogus"}

\* Categories: every endpoint that writes a category, with any value
NextCategory ==
    \/ \E u \in Users, p \in BOOLEAN, c \in RequestedCategories :
          CreateArticle(u, [published |-> p, category |-> c])
    \/ \E u \in Users, a \in Articles, c \in RequestedCategories :
          UpdateArticle(u, a, [category |-> c])
    \/ \E u \in Users, ids \in IdLists, c \in RequestedCategories :
          BulkUpdate(u, ids, [category |-> c])

SpecCategory == Init /\ [][NextCategory]_vars

\* Routing: GET requests by path over articles created published or draft
NextRoute ==
    \/ \E u \in Users, p \in BOOLEAN :
          CreateArticle(u, [published |-> p, category |-> "Other"])
    \/ \E u \in Requesters, path \in GetPaths, author \in {0} \cup Users,
          days \in DaysQueries, pr \in PageRequests : Get(u, path, author, days, pr)

SpecRoute == Init /\ [][NextRoute]_vars

\* Reading: the detail and list endpoints over articles that are published
\* and unpublished by their authors and bookmarked by one reader, one bookmark
\* request at a time
NextRead ==
    \/ \E u \in Users, p \in BOOLEAN :
          CreateArticle(u, [published |-> p, category |-> "Other"])
    \/ \E u \in Users, a \in Articles, p \in BOOLEAN :
          UpdateArticle(u, a, [published |-> p])
    \/ \E a \in Articles : BookmarkFind(1, NumUsers, a)
    \/ BookmarkSave(1)
    \/ \E u \in Requesters, a \in Articles : GetArticle(u, a)
    \/ \E author \in {0} \cup Users, pr \in PageRequests :
          GetArticles(author, pr[1], pr[2])
    \/ \E userId \in Users, pr \in PageRequests :
          GetUserArticles(userId, pr[1], pr[2])
    \/ \E u \in Users, pr \in PageRequests : GetBookmarks(u, pr[1], pr[2])
    \/ \E days \in DaysQueries, pr \in PageRequests : GetTrending(days, pr[1], pr[2])

SpecRead == Init /\ [][NextRead]_vars

\* trending: articles published on different days, read and commented on
NextTrend ==
    \/ TickTo(MaxTrendTime)
    \/ \E p \in BOOLEAN : CreateArticle(1, [published |-> p, category |-> "Other"])
    \/ \E a \in Articles : AddComment(1, a, "x")
    \/ \E a \in Articles : GetArticle(Anonymous, a)
    \/ \E q \in DaysQueries, pr \in PageRequests : GetTrending(q, pr[1], pr[2])

SpecTrend == Init /\ [][NextTrend]_vars

\* images: one article of user 1, overlapping uploads of its image, avatars
NextUpload ==
    \/ /\ nextId <= EngagedArticles
       /\ CreateArticle(1, [published |-> TRUE, category |-> "Other"])
    \/ \E r \in Reqs, u \in Users, a \in Articles, file \in Payloads :
          UploadStart(r, u, a, file)
    \/ \E r \in Reqs, released \in BOOLEAN : UploadReleased(r, released)
    \/ \E r \in Reqs, ok \in BOOLEAN : UploadRemoteDone(r, ok)
    \/ \E r \in Reqs, ok \in BOOLEAN : UploadLocalDone(r, ok)
    \/ \E r \in Reqs, ok \in BOOLEAN : UploadFallbackDone(r, ok)
    \/ \E r \in Reqs : UploadSave(r)
    \/ \E file \in Payloads, released, remoteOk, localOk \in BOOLEAN :
          UploadAvatar(1, file, released, remoteOk, localOk)

SpecUpload == Init /\ [][NextUpload]_vars

\* statistics of user 1 while user 1 creates, publishes and deletes
NextStats ==
    \/ \E p \in BOOLEAN : CreateArticle(1, [published |-> p, category |-> "Other"])
    \/ \E a \in Articles, p \in BOOLEAN : UpdateArticle(1, a, [published |-> p])
    \/ \E a \in Articles : DeleteArticle(1, a, TRUE)
    \/ StatsStart(1, 1)
    \/ \E which \in Counts : StatsCount(1, which)

SpecStats == Init /\ [][NextStats]_vars

\* follow toggles that overlap
NextFollow ==
    \/ \E r \in Reqs, u \in Users, target \in Users : FollowStart(r, u, target)
    \/ \E r \in Reqs : FollowRead(r)
    \/ \E r \in Reqs : FollowSaveCurrent(r)
    \/ \E r \in Reqs : FollowSaveTarget(r)

SpecFollow == Init /\ [][NextFollow]_vars

\* the Trending page: timeframe switches, Load More, responses in any order
NextPage ==
    \/ \E t \in Timeframes : SelectTimeframe(t)
    \/ LoadMore
    \/ \E i \in 1..MaxInflight, ok \in BOOLEAN, pages \in 1..MaxPages :
          Respond(i, ok, pages)

SpecPage == Init /\ [][NextPage]_vars
====
